---------------------------- MODULE Spec2Model ----------------------------
(***************************************************************************)
(* Model of the external-data component (src/external_api.py): the detail  *)
(* resolver fetch_pokemon_details with its process-wide POKEMON_CACHE, the *)
(* page aggregator get_pokemon_data and the single-item lookup             *)
(* get_pokemon_by_name, run by a single-threaded asyncio event loop; of    *)
(* the chat log (src/chat.py): post_chat_message with CHAT_MESSAGES and    *)
(* message_id_counter; and of the timeline listing (src/timeline.py).      *)
(*                                                                         *)
(* One action is one uninterrupted run of a coroutine between two          *)
(* suspension points: the upstream round trips, the closing of the         *)
(* resolver's and of the page handler's client (which may or may not       *)
(* suspend) and the chat handler's sleep.  Names are sequences of          *)
(* one-character strings so that str.lower() and the substring test are    *)
(* computed, not assumed.                                                  *)
(***************************************************************************)
EXTENDS Integers, Sequences, FiniteSets, TLC

(* ------------------------------ bounds -------------------------------- *)

\* number of HTTP requests handled in one behaviour (one slot per request)
NumReq == 2
\* largest of the first page numbers a client asks for (the code accepts
\* any page >= 1)
MaxPage == 2
\* largest page size a client asks for (the code accepts 1..LimitCap)
MaxLimit == 2
\* number of concurrent lookups in the lookup-only specification
NumLookups == 3
\* number of POST /chat requests handled in one behaviour
NumPosts == 2
\* largest limit a client passes to GET /timeline (the code accepts any int)
MaxTimelineLimit == 13
\* largest number of entries in the cache a single page request starts from
MaxCached == 2

(* ------------------------- program constants -------------------------- *)

\* Query(10, ge=1, le=50): the largest limit the route accepts
LimitCap == 50
\* params={"offset": 0, "limit": 1000}: size of the slice scanned by a search
SearchCap == 1000
\* limit: Optional[int] = Query(10): the limit of a GET /timeline without one
DefaultLimit == 10

(* ------------------------------ strings ------------------------------- *)

UpperChars == <<"A","B","C","D","E","F","G","H","I","J","K","L","M",
                "N","O","P","Q","R","S","T","U","V","W","X","Y","Z">>
LowerChars == <<"a","b","c","d","e","f","g","h","i","j","k","l","m",
                "n","o","p","q","r","s","t","u","v","w","x","y","z">>

\* str.lower() on one ASCII character
LowerOf ==
  [c \in { UpperChars[i] : i \in 1..Len(UpperChars) } |->
     LowerChars[CHOOSE i \in 1..Len(UpperChars) : UpperChars[i] = c]]
LowerChar(c) == IF c \in DOMAIN LowerOf THEN LowerOf[c] ELSE c

\* str.lower()
Lower(s) == [i \in 1..Len(s) |-> LowerChar(s[i])]

\* Python's "sub in s" on strings
Contains(sub, s) ==
  \E i \in 0..(Len(s) - Len(sub)) : SubSeq(s, i + 1, i + Len(sub)) = sub

Min(a, b) == IF a < b THEN a ELSE b

\* Python's s[lo:hi] for 0 <= lo, 0 <= hi
Slice(s, lo, hi) == SubSeq(s, lo + 1, Min(hi, Len(s)))

(* ------------------------- upstream (fixture) ------------------------- *)

\* The names the upstream list endpoint serves, in upstream order: one entry
\* more than a search scans.  Two of the first three differ only in case, so
\* one page can hold two entries with one key; the entries after them up to
\* the scan limit match no search term; the last one, past the scan limit,
\* matches the terms "a" and "c".
CatalogueHead == << <<"A","b">>, <<"b">>, <<"a","b">> >>
Catalogue ==
  CatalogueHead
    \o [i \in 1..(SearchCap - 3) |-> <<"y">>]
    \o << <<"a","c">> >>

\* the lowercased names of the catalogue
CatalogueKeys == { Lower(Catalogue[i]) : i \in 1..Len(Catalogue) }

\* GET <base>/?offset=o&limit=l answered with status 200:
\* {count, results: [{name}, ...]}
UpstreamList(offset, limit) ==
  [count |-> Len(Catalogue), results |-> Slice(Catalogue, offset, offset + limit)]

\* status codes the list endpoint may answer with
ListStatuses == {200, 404, 503}

\* shapes of a 200 list body: complete, without "count", without "results"
ListBodies == {"ok", "nocount", "bad"}

\* the id the upstream reports for a key: its first position in the catalogue
UpstreamId(key) ==
  IF key \in CatalogueKeys
  THEN CHOOSE i \in 1..Len(Catalogue) :
         /\ Lower(Catalogue[i]) = key
         /\ \A j \in 1..(i - 1) : Lower(Catalogue[j]) # key
  ELSE 0

\* What one GET <base>/{name} can end in: a response (a status and, for a
\* 200, a body: "full", "noart" without the nested artwork url, "bad"
\* without a required field such as id), a timeout, a transport error.
\* The body of a 200 detail answer for a key, as far as the resolver reads
\* it: upstream serves the record of that name; artwork is the nested url,
\* <<>> when the body has none.
UpstreamDetail(key, body) ==
  [id |-> UpstreamId(key), name |-> key,
   artwork |-> IF body = "full" THEN <<"url">> ELSE <<>>]

DetailOutcomes ==
  { [kind |-> "response",  status |-> 200, body |-> "full"],
    [kind |-> "response",  status |-> 200, body |-> "noart"],
    [kind |-> "response",  status |-> 200, body |-> "bad"],
    [kind |-> "response",  status |-> 404, body |-> "bad"],
    [kind |-> "response",  status |-> 500, body |-> "bad"],
    [kind |-> "timeout",   status |-> 0,   body |-> "bad"],
    [kind |-> "transport", status |-> 0,   body |-> "bad"] }

(* ------------------------------ inputs -------------------------------- *)

ReqIds == 1..NumReq

\* slots of the POST /chat requests
PostIds == 1..NumPosts

\* the positions a page request can give its tasks: at most limit of them
TaskIds == 1..Min(MaxLimit, LimitCap)

\* pages a client asks for: the first ones, and those around the end of the
\* catalogue (the last page of size 2, the last of size 1, the one past it)
PageNumbers ==
  (1..MaxPage) \cup
  { (Len(Catalogue) + 1) \div 2, Len(Catalogue), Len(Catalogue) + 1 }

\* the optional search parameter: <<>> is None, <<s>> is the string s
SearchTerms == { <<>>, << <<>> >>, << <<"a">> >>, << <<"B">> >>, << <<"c">> >> }

\* the search terms among them that make the handler search: the non-empty
\* strings
Terms == { s[1] : s \in { t \in SearchTerms : t # <<>> /\ t[1] # <<>> } }

\* names a client looks up: a case variant of a catalogue name, a catalogue
\* name, a name the catalogue does not hold
LookupNames == { <<"A","B">>, <<"b">>, <<"z">> }

\* slots of the lookup-only specification
LookupIds == 1..NumLookups

\* names looked up there: two case variants of one catalogue name
VariantNames == { <<"A","B">>, <<"a","b">> }

(* ------------------------------- state -------------------------------- *)

VARIABLES
  POKEMON_CACHE,      \* the module-level dict: lowercased name -> Pokemon
  req,                \* one record per request slot: the coroutine's locals
  CHAT_MESSAGES,      \* chat.py: the module-level list of ChatMessage
  message_id_counter, \* chat.py: the id the next ChatMessage gets
  post,               \* one record per POST /chat request: its locals
  query               \* the GET /timeline request: parameters and result

vars == <<POKEMON_CACHE, req, CHAT_MESSAGES, message_id_counter, post, query>>

\* what the external-data handlers never touch
chatVars == <<CHAT_MESSAGES, message_id_counter, post>>

\* the response a slot has not produced yet
NoResp ==
  [status |-> 0, detail |-> "", pokemon |-> <<>>, page |-> 0, total |-> 0,
   has_more |-> FALSE]

\* kind: "none", "page", "lookup"; pc: where the handler is suspended
\* ("list": in the list call; "fanout": gather has its tasks, none has run;
\* "gather": in gather; "closing": in the __aexit__ of its own client, with
\* pending the response it will give; "detail": in the resolver, for a
\* lookup; "done": answered, with resp the response given).
\* History only: listStatus and listBody, what the list call answered
\* (listStatus stays 0 when the call ended without an answer);
\* after, the requests already answered when a lookup began.
IdleReq ==
  [kind |-> "none", pc |-> "idle", page |-> 0, limit |-> 0, search |-> <<>>,
   offset |-> 0, total |-> 0, tasks |-> <<>>, resp |-> NoResp,
   pending |-> NoResp, listStatus |-> 0, listBody |-> "", after |-> {}]

\* a resolution gather has created and not yet run
NewTask(name) ==
  [name |-> name, st |-> "new", val |-> <<>>, hit |-> FALSE, why |-> "",
   ord |-> 0, fin |-> ""]

\* the response a POST /chat has not produced yet
NoChatResp == [status |-> 0, detail |-> "", reply |-> <<>>, bot_response |-> <<>>]

\* pc: "idle", "sleep" (suspended in asyncio.sleep), "done";
\* user_message: the handler's local, <<>> until it is created
IdlePost ==
  [pc |-> "idle", sender |-> "", message |-> "", user_message |-> <<>>,
   resp |-> NoChatResp]

\* pc: "idle", "called", "done"; type and limit are the optional query
\* parameters (<<>> is None); events is the list the handler returns
IdleQuery == [pc |-> "idle", type |-> <<>>, limit |-> <<>>, events |-> <<>>]

\* chat.py after import: CHAT_MESSAGES = [], message_id_counter = 1
InitChat ==
  /\ CHAT_MESSAGES = << >>
  /\ message_id_counter = 1
  /\ post = [p \in PostIds |-> IdlePost]

Init ==
  /\ POKEMON_CACHE = << >>
  /\ req = [r \in ReqIds |-> IdleReq]
  /\ InitChat
  /\ query = IdleQuery

\* truthiness of the optional search string: None and "" are falsy
Truthy(search) == search # <<>> /\ search[1] # <<>>

\* slots whose request has been answered
Answered == { r \in DOMAIN req : req[r].pc = "done" }

\* slots are taken in order: a new request takes the lowest free slot
Free(r) == req[r].kind = "none" /\ \A q \in 1..(r - 1) : req[q].kind # "none"

(* -------------------------- detail resolver --------------------------- *)

\* image_url = data["sprites"]["other"]["official-artwork"]["front_default"],
\* None when a key of that path is missing
\* Pokemon(id=data['id'], name=data['name'], ..., image_url=image_url);
\* height, weight and types are copied like id and are left out.
ParsePokemon(data) ==
  [id |-> data.id, name |-> data.name,
   image_url |-> IF data.artwork # <<>> THEN data.artwork[1] ELSE "None"]

\* (mutant) the cache test without lower(): only the exact spelling hits
CacheHit_CaseSensitive(name) == name \in DOMAIN POKEMON_CACHE

\* the cache test of fetch_pokemon_details
CacheHit(name) == Lower(name) \in DOMAIN POKEMON_CACHE

\* (mutant) the resolver without its cache test: every resolution calls
\* upstream
StartFetch_NoCacheTest(name) ==
  [name |-> name, st |-> "wait", val |-> <<>>, hit |-> FALSE, why |-> "",
   ord |-> 0, fin |-> ""]

\* fetch_pokemon_details up to its first suspension: a cache hit returns the
\* cached record at once, a miss issues the upstream call and waits.
\* st: "wait" (call in flight), "closing" (suspended in the client's
\* __aexit__, fin holding what it will return or raise), "rec", "none",
\* "exc"; val holds the record.
\* History only: hit, the resolution issued no upstream call; why, what made
\* it return None ("status" or "error"); ord, its rank among the upstream
\* answers its request has received.
StartFetch(name) ==
  IF CacheHit(name)
  THEN [NewTask(name) EXCEPT !.st = "rec",
                             !.val = <<POKEMON_CACHE[Lower(name)]>>,
                             !.hit = TRUE]
  ELSE [NewTask(name) EXCEPT !.st = "wait"]

\* the upstream answer lets the resolver build and store a record
Stores(out) ==
  out.kind = "response" /\ out.status = 200 /\ out.body # "bad"

\* fetch_pokemon_details from the upstream answer to its return or raise:
\* timeouts and transport errors are caught (None), a non-200 status gives
\* None, a 200 with an incomplete body raises out of the resolver.
FinishFetch(t, out) ==
  IF out.kind # "response" THEN [t EXCEPT !.st = "none", !.why = "error"]
  ELSE IF out.status # 200 THEN [t EXCEPT !.st = "none", !.why = "status"]
  ELSE IF out.body = "bad" THEN [t EXCEPT !.st = "exc"]
  ELSE [t EXCEPT !.st = "rec",
                 !.val = <<ParsePokemon(UpstreamDetail(Lower(t.name), out.body))>>]

\* The resolver returns and raises from inside `async with
\* httpx.AsyncClient(...)` (line 38): on its way out it awaits the client's
\* __aexit__, which may hand control back to the event loop while it closes
\* the connection.  The record, if any, has been stored by then (line 60).
Closing(t) == [t EXCEPT !.st = "closing", !.fin = t.st]

\* the client is closed: the resolver returns or raises what it had
Returned(t) == [t EXCEPT !.st = t.fin, !.fin = ""]

\* (mutant) a failed fetch evicts the entry of its key
CacheAfter_EvictOnFailure(t, out) ==
  IF Stores(out)
  THEN [k \in DOMAIN POKEMON_CACHE \cup {Lower(t.name)} |->
          IF k = Lower(t.name) THEN ParsePokemon(UpstreamDetail(k, out.body))
          ELSE POKEMON_CACHE[k]]
  ELSE [k \in DOMAIN POKEMON_CACHE \ {Lower(t.name)} |-> POKEMON_CACHE[k]]

\* (mutant) a failed fetch is remembered as an empty record under its key
CacheAfter_CacheAbsence(t, out) ==
  [k \in DOMAIN POKEMON_CACHE \cup {Lower(t.name)} |->
     IF k # Lower(t.name) THEN POKEMON_CACHE[k]
     ELSE IF Stores(out) THEN ParsePokemon(UpstreamDetail(k, out.body))
     ELSE [id |-> 0, name |-> k, image_url |-> "None"]]

\* (mutant) the resolver never stores what it fetched
CacheAfter_NoStore(t, out) == POKEMON_CACHE

\* POKEMON_CACHE[name.lower()] = pokemon, on a 200 with a complete body only
CacheAfter(t, out) ==
  IF Stores(out)
  THEN [k \in DOMAIN POKEMON_CACHE \cup {Lower(t.name)} |->
          IF k = Lower(t.name) THEN ParsePokemon(UpstreamDetail(k, out.body))
          ELSE POKEMON_CACHE[k]]
  ELSE POKEMON_CACHE

(* --------------------------- page aggregator -------------------------- *)

\* raise HTTPException(status_code=response.status_code,
\*                     detail="Failed to fetch data from external API")
UpstreamFailure(status) ==
  [status |-> status, detail |-> "Failed to fetch data from external API",
   pokemon |-> <<>>, page |-> 0, total |-> 0, has_more |-> FALSE]

\* str(e): "<status_code>: <detail>" for an HTTPException, the message for
\* any other exception
StrOf(e) ==
  IF e.status # 0 THEN ToString(e.status) \o ": " \o e.detail ELSE e.detail

\* except Exception as e:
\*   raise HTTPException(status_code=500,
\*                       detail=f"Internal server error: {str(e)}").
\* The handler encloses the whole body of get_pokemon_data, the two
\* raise HTTPException(...) statements included, and HTTPException is an
\* Exception: whatever is raised inside leaves as a 500.
ExceptHandler(e) ==
  [status |-> 500, detail |-> "Internal server error: " \o StrOf(e),
   pokemon |-> <<>>, page |-> 0, total |-> 0, has_more |-> FALSE]

\* an exception that is not an HTTPException, with its message
OtherError(message) ==
  [status |-> 0, detail |-> message,
   pokemon |-> <<>>, page |-> 0, total |-> 0, has_more |-> FALSE]

\* KeyError(key), raised by data[key] on a body without that key; its str()
\* is the repr of the key
KeyError(key) == OtherError("'" \o key \o "'")

\* the key a malformed list body lacks: "results" (line 91, 125), or "count"
\* (line 126, read on the path without search only)
MissingListKey(body) == IF body = "bad" THEN "results" ELSE "count"

\* the key a malformed detail body lacks (line 52)
MissingDetailKey == "id"

\* how the list call can end without an answer, with str(e) of the exception
\* client.get raises: httpx.ReadTimeout, whose message is empty, when the
\* server accepts and never answers; httpx.ConnectError when no connection
\* can be made
ListErrors ==
  { [kind |-> "timeout",   message |-> ""],
    [kind |-> "transport", message |-> "All connection attempts failed"] }

\* (mutant) the filter compares the names as they are, case included
FilterBySearch_CaseSensitive(results, term) ==
  LET Keep(name) == Contains(term, name)
  IN  SelectSeq(results, Keep)

\* [item for item in results if search.lower() in item["name"].lower()]
FilterBySearch(results, term) ==
  LET needle == Lower(term)
      Keep(name) == Contains(needle, Lower(name))
  IN  SelectSeq(results, Keep)

\* (mutant) the records are collected last entry first
RECURSIVE DropNone_Reversed(_)
DropNone_Reversed(tasks) ==
  IF tasks = <<>> THEN <<>>
  ELSE DropNone_Reversed(Tail(tasks)) \o Head(tasks).val

\* [p for p in pokemons if p is not None]
RECURSIVE DropNone(_)
DropNone(tasks) ==
  IF tasks = <<>> THEN <<>>
  ELSE Head(tasks).val \o DropNone(Tail(tasks))

\* (mutant) has_more with <= for <
HasMore_Inclusive(offset, limit, total) == (offset + limit) <= total

\* has_more = (offset + limit) < total
HasMore(offset, limit, total) == (offset + limit) < total

\* GET /external_data/?page=&limit=&search= : the handler runs to its first
\* suspension, the upstream list call.
GetPokemonData(r, page, limit, search) ==
  /\ Free(r)
  /\ req' = [req EXCEPT ![r] =
       [IdleReq EXCEPT !.kind = "page", !.pc = "list", !.page = page,
                       !.limit = limit, !.search = search]]
  /\ UNCHANGED <<POKEMON_CACHE, chatVars, query>>

\* data["results"] of the search's list call (offset 0, limit 1000) filtered
\* by the term: the same list for every request with that term, computed
\* once per term
Filtered ==
  [term \in Terms |->
     FilterBySearch(UpstreamList(0, SearchCap).results, term)]

\* The handler from the answer of the list call to the end of that run: on
\* a non-200 status it raises the upstream failure, which its own except
\* clause turns into a 500; on a malformed body it raises likewise;
\* otherwise it filters and pages the entries and hands one fetch coroutine
\* per entry to asyncio.gather.  With no entry gather returns a finished
\* future and the handler returns the empty page in the same run.  pc is
\* "done" where the handler raises or returns, resp what it answers then.
AfterList(q, status, body) ==
  LET srch   == Truthy(q.search)
      offset == (q.page - 1) * q.limit
      data   == UpstreamList(offset, q.limit)
      kept   == IF srch THEN Filtered[q.search[1]] ELSE data.results
      total  == IF srch THEN Len(kept) ELSE data.count
      slice  == IF srch THEN Slice(kept, offset, offset + q.limit) ELSE kept
  IN  IF status # 200
      THEN [q EXCEPT !.pc = "done", !.listStatus = status,
                     !.resp = ExceptHandler(UpstreamFailure(status))]
      ELSE IF body = "bad" \/ (body = "nocount" /\ ~srch)
      THEN [q EXCEPT !.pc = "done", !.listStatus = status,
                     !.listBody = body,
                     !.resp = ExceptHandler(KeyError(MissingListKey(body)))]
      ELSE IF slice = <<>>
      THEN [q EXCEPT !.pc = "done", !.listStatus = status,
                     !.listBody = body,
                     !.offset = offset, !.total = total,
                     !.resp = [status |-> 200, detail |-> "",
                               pokemon |-> <<>>, page |-> q.page,
                               total |-> total,
                               has_more |-> HasMore(offset, q.limit, total)]]
      ELSE [q EXCEPT !.pc = "fanout", !.listStatus = status,
                     !.listBody = body,
                     !.offset = offset, !.total = total,
                     !.tasks = [i \in 1..Len(slice) |-> NewTask(slice[i])]]

\* Every raise and return of get_pokemon_data lies inside `async with
\* httpx.AsyncClient(...) as client` (line 81): the handler leaves through
\* the client's __aexit__, which may hand control back to the event loop
\* while it closes the connections; the except clause and the response come
\* after it.  Suspended(q) is the handler that would be answered as in q,
\* suspended in that close.
Suspended(q) == [q EXCEPT !.pc = "closing", !.pending = q.resp, !.resp = NoResp]

\* the client is closed: the response is given
Resumed(q) == [q EXCEPT !.pc = "done", !.resp = q.pending, !.pending = NoResp]

\* The list call answers, with a client whose __aexit__ does not suspend:
\* the handler runs on to its answer or to gather.
ListRespond(r, status, body) ==
  /\ req[r].kind = "page" /\ req[r].pc = "list"
  /\ req' = [req EXCEPT ![r] = AfterList(req[r], status, body)]
  /\ UNCHANGED <<POKEMON_CACHE, chatVars, query>>

\* The list call answers and the handler raises or returns in that run,
\* with a client whose __aexit__ suspends: the handler waits for its client
\* to close.
ListClose(r, status, body) ==
  /\ req[r].kind = "page" /\ req[r].pc = "list"
  /\ LET q == AfterList(req[r], status, body)
     IN  /\ q.pc = "done"
         /\ req' = [req EXCEPT ![r] = Suspended(q)]
  /\ UNCHANGED <<POKEMON_CACHE, chatVars, query>>

\* what the handler answers when client.get raised err
AfterListError(q, err) ==
  [q EXCEPT !.pc = "done", !.resp = ExceptHandler(OtherError(err.message))]

\* The list call ends without an answer: client.get raises a timeout or a
\* transport error, which the except clause turns into a 500.
ListFail(r, err) ==
  /\ req[r].kind = "page" /\ req[r].pc = "list"
  /\ req' = [req EXCEPT ![r] = AfterListError(req[r], err)]
  /\ UNCHANGED <<POKEMON_CACHE, chatVars, query>>

\* the same, the exception passing through a client whose __aexit__ suspends
ListFailClose(r, err) ==
  /\ req[r].kind = "page" /\ req[r].pc = "list"
  /\ req' = [req EXCEPT ![r] = Suspended(AfterListError(req[r], err))]
  /\ UNCHANGED <<POKEMON_CACHE, chatVars, query>>

\* the handler's client is closed: the handler returns its page or reaches
\* its except clause, and the request is answered
HandlerReturn(r) ==
  /\ req[r].kind = "page" /\ req[r].pc = "closing"
  /\ req' = [req EXCEPT ![r] = Resumed(req[r])]
  /\ UNCHANGED <<POKEMON_CACHE, chatVars, query>>

\* The tasks gather created take their first step one after the other, in
\* list order, with nothing between them: each tests the cache and either
\* returns the cached record or issues its upstream call.
FanOut(r) ==
  /\ req[r].kind = "page" /\ req[r].pc = "fanout"
  /\ req' = [req EXCEPT ![r].pc = "gather",
                        ![r].tasks = [i \in 1..Len(req[r].tasks) |->
                                        StartFetch(req[r].tasks[i].name)]]
  /\ UNCHANGED <<POKEMON_CACHE, chatVars, query>>

\* the upstream detail answers the request's tasks have received so far
Answers(q) == Cardinality({ i \in 1..Len(q.tasks) : q.tasks[i].ord > 0 })

\* One upstream detail call of a page request ends.  The task goes on whether
\* or not its request has been answered: gather cancels nothing.
DetailRespond(r, i, out) ==
  /\ req[r].kind = "page"
  /\ i \in 1..Len(req[r].tasks)
  /\ req[r].tasks[i].st = "wait"
  /\ req' = [req EXCEPT ![r].tasks[i] =
       [FinishFetch(req[r].tasks[i], out) EXCEPT !.ord = Answers(req[r]) + 1]]
  /\ POKEMON_CACHE' = CacheAfter(req[r].tasks[i], out)
  /\ UNCHANGED <<chatVars, query>>

\* The same upstream answer with a client whose __aexit__ suspends: the task
\* stores its record, if it got one, and waits for the client to close.
DetailClose(r, i, out) ==
  /\ req[r].kind = "page"
  /\ i \in 1..Len(req[r].tasks)
  /\ req[r].tasks[i].st = "wait"
  /\ req' = [req EXCEPT ![r].tasks[i] =
       Closing([FinishFetch(req[r].tasks[i], out) EXCEPT
                  !.ord = Answers(req[r]) + 1])]
  /\ POKEMON_CACHE' = CacheAfter(req[r].tasks[i], out)
  /\ UNCHANGED <<chatVars, query>>

\* the client of a task is closed and the task returns or raises
DetailReturn(r, i) ==
  /\ req[r].kind = "page"
  /\ i \in 1..Len(req[r].tasks)
  /\ req[r].tasks[i].st = "closing"
  /\ req' = [req EXCEPT ![r].tasks[i] = Returned(req[r].tasks[i])]
  /\ UNCHANGED <<POKEMON_CACHE, chatVars, query>>

\* a task of the request has raised
Raised(q) == \E i \in 1..Len(q.tasks) : q.tasks[i].st = "exc"

\* every task of the request has returned or raised
AllDone(q) == \A i \in 1..Len(q.tasks) : q.tasks[i].st \in {"rec", "none", "exc"}

\* (mutant) a task that returned None fails the page like one that raised
PageResponse_AbortOnNone(q) ==
  IF \E i \in 1..Len(q.tasks) : q.tasks[i].st \in {"exc", "none"}
  THEN ExceptHandler(KeyError(MissingDetailKey))
  ELSE [status |-> 200, detail |-> "", pokemon |-> DropNone(q.tasks),
        page |-> q.page, total |-> q.total,
        has_more |-> HasMore(q.offset, q.limit, q.total)]

\* (mutant) exceptions of the tasks are dropped like None results
PageResponse_SwallowExceptions(q) ==
  [status |-> 200, detail |-> "", pokemon |-> DropNone(q.tasks),
   page |-> q.page, total |-> q.total,
   has_more |-> HasMore(q.offset, q.limit, q.total)]

\* what the handler answers once gather has resumed it
PageResponse(q) ==
  IF Raised(q) THEN ExceptHandler(KeyError(MissingDetailKey))
  ELSE [status |-> 200, detail |-> "", pokemon |-> DropNone(q.tasks),
        page |-> q.page, total |-> q.total,
        has_more |-> HasMore(q.offset, q.limit, q.total)]

\* (mutant) gather resumes the handler when the first task completes
GatherResumes_FirstCompleted(q) ==
  \E i \in 1..Len(q.tasks) : q.tasks[i].st \in {"rec", "none", "exc"}

\* await asyncio.gather(*tasks) resumes the handler: when every task has
\* returned, or as soon as one has raised (the exception propagates, the
\* others run on).
GatherResumes(q) == Raised(q) \/ AllDone(q)

\* the handler from its resumption by gather to its return or raise
AfterGather(q) == [q EXCEPT !.pc = "done", !.resp = PageResponse(q)]

\* gather resumes the handler, with a client whose __aexit__ does not
\* suspend: the request is answered in that run.
Join(r) ==
  /\ req[r].kind = "page" /\ req[r].pc = "gather"
  /\ GatherResumes(req[r])
  /\ req' = [req EXCEPT ![r] = AfterGather(req[r])]
  /\ UNCHANGED <<POKEMON_CACHE, chatVars, query>>

\* gather resumes the handler, with a client whose __aexit__ suspends: the
\* response or the exception is fixed, the handler waits for its client to
\* close, and the tasks that have not finished run on meanwhile.
JoinClose(r) ==
  /\ req[r].kind = "page" /\ req[r].pc = "gather"
  /\ GatherResumes(req[r])
  /\ req' = [req EXCEPT ![r] = Suspended(AfterGather(req[r]))]
  /\ UNCHANGED <<POKEMON_CACHE, chatVars, query>>

(* -------------------------- single-item lookup ------------------------ *)

\* (mutant) the lookup answers 404 for a resolver that raised, too
LookupResponse_NotFoundOnRaise(t) ==
  IF t.st = "rec"
  THEN [status |-> 200, detail |-> "", pokemon |-> t.val, page |-> 0,
        total |-> 0, has_more |-> FALSE]
  ELSE [status |-> 404, detail |-> "Pokemon not found", pokemon |-> <<>>,
        page |-> 0, total |-> 0, has_more |-> FALSE]

\* what get_pokemon_by_name answers for a finished resolution: the record,
\* a 404 when the resolver returned None (if not pokemon), and the
\* framework's 500 when the resolver raised.
LookupResponse(t) ==
  IF t.st = "rec"
  THEN [status |-> 200, detail |-> "", pokemon |-> t.val, page |-> 0,
        total |-> 0, has_more |-> FALSE]
  ELSE IF t.st = "none"
  THEN [status |-> 404, detail |-> "Pokemon not found", pokemon |-> <<>>,
        page |-> 0, total |-> 0, has_more |-> FALSE]
  ELSE [status |-> 500, detail |-> "unhandled exception", pokemon |-> <<>>,
        page |-> 0, total |-> 0, has_more |-> FALSE]

\* GET /external_data/{name}: the handler awaits the resolver inline; on a
\* cache hit it answers without suspending.
GetPokemonByName(r, name) ==
  /\ Free(r)
  /\ LET t == StartFetch(name)
     IN  req' = [req EXCEPT ![r] =
           [IdleReq EXCEPT !.kind = "lookup",
                           !.pc = IF t.st = "wait" THEN "detail" ELSE "done",
                           !.tasks = <<t>>, !.after = Answered,
                           !.resp = IF t.st = "wait" THEN NoResp
                                    ELSE LookupResponse(t)]]
  /\ UNCHANGED <<POKEMON_CACHE, chatVars, query>>

\* the lookup's upstream call ends and the handler runs to its end
ByNameRespond(r, out) ==
  /\ req[r].kind = "lookup" /\ req[r].pc = "detail"
  /\ req[r].tasks[1].st = "wait"
  /\ LET t == FinishFetch(req[r].tasks[1], out)
     IN  req' = [req EXCEPT ![r].tasks = <<t>>, ![r].pc = "done",
                            ![r].resp = LookupResponse(t)]
  /\ POKEMON_CACHE' = CacheAfter(req[r].tasks[1], out)
  /\ UNCHANGED <<chatVars, query>>

\* The same upstream answer with a client whose __aexit__ suspends: the
\* resolver stores its record, if it got one, and waits for the client to
\* close; the lookup is not answered yet.
ByNameClose(r, out) ==
  /\ req[r].kind = "lookup" /\ req[r].pc = "detail"
  /\ req[r].tasks[1].st = "wait"
  /\ req' = [req EXCEPT ![r].tasks = <<Closing(FinishFetch(req[r].tasks[1], out))>>]
  /\ POKEMON_CACHE' = CacheAfter(req[r].tasks[1], out)
  /\ UNCHANGED <<chatVars, query>>

\* the client is closed, the resolver returns and the handler runs to its end
ByNameReturn(r) ==
  /\ req[r].kind = "lookup" /\ req[r].pc = "detail"
  /\ req[r].tasks[1].st = "closing"
  /\ LET t == Returned(req[r].tasks[1])
     IN  req' = [req EXCEPT ![r].tasks = <<t>>, ![r].pc = "done",
                            ![r].resp = LookupResponse(t)]
  /\ UNCHANGED <<POKEMON_CACHE, chatVars, query>>

(* -------------------------------- chat -------------------------------- *)

\* senders a client names; nothing stops a client from calling itself "Bot"
ChatSenders == {"alice", "Bot"}

\* message texts a client posts, with their characters: empty, whitespace
\* only, a text without keyword, a text with a keyword in another case
ChatTexts == {"", "  ", "hi", "Help"}
Chars(text) ==
  CASE text = ""     -> <<>>
    [] text = "  "   -> <<" ", " ">>
    [] text = "hi"   -> <<"h", "i">>
    [] text = "Help" -> <<"H", "e", "l", "p">>

\* characters str.strip() removes (those the texts above can hold)
Whitespace == {" ", "\t", "\n"}

\* str.strip()
RECURSIVE Strip(_)
Strip(s) ==
  IF s = <<>> THEN <<>>
  ELSE IF Head(s) \in Whitespace THEN Strip(Tail(s))
  ELSE IF s[Len(s)] \in Whitespace THEN Strip(SubSeq(s, 1, Len(s) - 1))
  ELSE s

\* (mutant) the validation without strip(): only the empty text is refused
IsBlank_EmptyOnly(text) == Chars(text) = <<>>

\* `not chat_request.message.strip()`
IsBlank(text) == Strip(Chars(text)) = <<>>

BOT_REPLIES ==
  << "Hello! How can I assist you today?",
     "I'm here to help! What do you need?",
     "Can you please provide more details?",
     "Thank you for reaching out!",
     "I'm glad to assist you with that.",
     "Let me check that for you.",
     "Could you clarify your question?",
     "I'm here to support you!",
     "What else can I do for you?",
     "Feel free to ask me anything!" >>

\* the dict in insertion order, which is the order the loop tests it in
KEYWORD_REPLIES ==
  << [keyword |-> <<"h","e","l","l","o">>,
      reply |-> "Hi there! How can I help you?"],
     [keyword |-> <<"h","e","l","p">>,
      reply |-> "Sure! What do you need assistance with?"],
     [keyword |-> <<"t","h","a","n","k","s">>,
      reply |-> "You're welcome! Let me know if you have more questions."],
     [keyword |-> <<"p","r","o","b","l","e","m">>,
      reply |-> "I'm sorry to hear that. Can you tell me more about the problem?"],
     [keyword |-> <<"i","s","s","u","e">>,
      reply |-> "Let's see how we can resolve that issue together."] >>

\* generate_bot_reply: the replies it can return for a text -- the reply of
\* the first keyword the lowercased text contains, else any of BOT_REPLIES
\* (random.choice)
BotReplies(text) ==
  LET lower == Lower(Chars(text))
      found == { i \in 1..Len(KEYWORD_REPLIES) :
                   Contains(KEYWORD_REPLIES[i].keyword, lower) }
  IN  IF found # {}
      THEN { KEYWORD_REPLIES[CHOOSE i \in found : \A j \in found : i <= j].reply }
      ELSE { BOT_REPLIES[i] : i \in 1..Len(BOT_REPLIES) }

\* create_chat_message: the message it returns; the timestamp, which no
\* POST handler reads, is left out
CreateChatMessage(sender, text) ==
  [id |-> message_id_counter, sender |-> sender, message |-> text]

\* (mutant) create_chat_message without its increment
CounterAfterCreate_NoIncrement == message_id_counter

\* create_chat_message: message_id_counter += 1
CounterAfterCreate == message_id_counter + 1

\* POST /chat/ up to its first suspension: a blank message is refused with
\* 400; otherwise the user's message is created and appended and the
\* handler suspends in asyncio.sleep(1).
PostChatMessage(p, sender, text) ==
  /\ post[p].pc = "idle" /\ \A q \in 1..(p - 1) : post[q].pc # "idle"
  /\ IF IsBlank(text)
     THEN /\ post' = [post EXCEPT ![p] =
                 [IdlePost EXCEPT !.pc = "done", !.sender = sender,
                                  !.message = text,
                                  !.resp = [NoChatResp EXCEPT
                                     !.status = 400,
                                     !.detail = "Message cannot be empty"]]]
          /\ UNCHANGED <<CHAT_MESSAGES, message_id_counter>>
     ELSE LET user_message == CreateChatMessage(sender, text)
          IN  /\ CHAT_MESSAGES' = Append(CHAT_MESSAGES, user_message)
              /\ message_id_counter' = CounterAfterCreate
              /\ post' = [post EXCEPT ![p] =
                    [IdlePost EXCEPT !.pc = "sleep", !.sender = sender,
                                     !.message = text,
                                     !.user_message = <<user_message>>]]
  /\ UNCHANGED <<POKEMON_CACHE, req, query>>

\* (mutant) after the sleep the handler takes the newest message of the log
\* for the user's message
BotReply_PairsNewest(p, reply) ==
  /\ post[p].pc = "sleep"
  /\ reply \in BotReplies(post[p].message)
  /\ LET bot_message == CreateChatMessage("Bot", reply)
     IN  /\ CHAT_MESSAGES' = Append(CHAT_MESSAGES, bot_message)
         /\ message_id_counter' = CounterAfterCreate
         /\ post' = [post EXCEPT ![p].pc = "done",
                                 ![p].resp = [NoChatResp EXCEPT
                                    !.status = 200,
                                    !.reply = <<CHAT_MESSAGES[Len(CHAT_MESSAGES)]>>,
                                    !.bot_response = <<bot_message>>]]
  /\ UNCHANGED <<POKEMON_CACHE, req, query>>

\* the sleep ends: the bot's reply is generated, created and appended, and
\* the handler returns ChatResponse(reply, bot_response).  Handlers wake in
\* any order.
BotReply(p, reply) ==
  /\ post[p].pc = "sleep"
  /\ reply \in BotReplies(post[p].message)
  /\ LET bot_message == CreateChatMessage("Bot", reply)
     IN  /\ CHAT_MESSAGES' = Append(CHAT_MESSAGES, bot_message)
         /\ message_id_counter' = CounterAfterCreate
         /\ post' = [post EXCEPT ![p].pc = "done",
                                 ![p].resp = [NoChatResp EXCEPT
                                    !.status = 200,
                                    !.reply = post[p].user_message,
                                    !.bot_response = <<bot_message>>]]
  /\ UNCHANGED <<POKEMON_CACHE, req, query>>

\* every text generate_bot_reply can return
AllReplies ==
  { BOT_REPLIES[i] : i \in 1..Len(BOT_REPLIES) } \cup
  { KEYWORD_REPLIES[i].reply : i \in 1..Len(KEYWORD_REPLIES) }

(* ------------------------------ timeline ------------------------------ *)

\* The in-memory events: id, type, and timestamp as minutes relative to the
\* import time (datetime.now() - timedelta(...)); title, description and
\* message are carried along unread and are left out.
TIMELINE_EVENTS ==
  << [id |-> 1,  timestamp |-> 0 - 2880, type |-> "Audit"],
     [id |-> 2,  timestamp |-> 0 - 1740, type |-> "Note"],
     [id |-> 3,  timestamp |-> 0 - 1200, type |-> "Audit"],
     [id |-> 4,  timestamp |-> 0 - 600,  type |-> "Note"],
     [id |-> 5,  timestamp |-> 0 - 120,  type |-> "Audit"],
     [id |-> 6,  timestamp |-> 0 - 30,   type |-> "Audit"],
     [id |-> 7,  timestamp |-> 0 - 10,   type |-> "Note"],
     [id |-> 8,  timestamp |-> 0 - 60,   type |-> "Audit"],
     [id |-> 9,  timestamp |-> 0 - 180,  type |-> "Note"],
     [id |-> 10, timestamp |-> 0 - 240,  type |-> "Note"],
     [id |-> 11, timestamp |-> 0 - 360,  type |-> "Audit"],
     [id |-> 12, timestamp |-> 0 - 480,  type |-> "Audit"] >>

\* the optional type parameter: None, "", the two types, a misspelt type
TimelineTypes == { <<>>, <<"">>, <<"Audit">>, <<"Note">>, <<"note">> }

\* the optional limit parameter: left out, or any int (no ge/le on the Query)
TimelineLimits == { <<>> } \cup { <<n>> : n \in (0 - 1)..MaxTimelineLimit }

\* `if type:` -- None and "" are falsy
TypeGiven(type) == type # <<>> /\ type[1] # ""

\* [event for event in events if event.type == type]
RECURSIVE FilterByType(_, _)
FilterByType(events, type) ==
  IF events = <<>> THEN <<>>
  ELSE (IF Head(events).type = type THEN <<Head(events)>> ELSE <<>>)
       \o FilterByType(Tail(events), type)

\* sorted(events, key=lambda x: x.timestamp, reverse=True): the first of the
\* events with the largest timestamp, then the rest sorted the same way
RECURSIVE SortedNewestFirst(_)
SortedNewestFirst(events) ==
  IF events = <<>> THEN <<>>
  ELSE LET i == CHOOSE i \in 1..Len(events) :
                  /\ \A j \in 1..Len(events) :
                        events[j].timestamp <= events[i].timestamp
                  /\ \A j \in 1..(i - 1) :
                        events[j].timestamp < events[i].timestamp
       IN  <<events[i]>> \o
           SortedNewestFirst(SubSeq(events, 1, i - 1) \o
                             SubSeq(events, i + 1, Len(events)))

\* Python's s[:n] for any int n: a negative n counts from the end
Prefix(s, n) ==
  IF n >= 0 THEN SubSeq(s, 1, Min(n, Len(s))) ELSE SubSeq(s, 1, Len(s) + n)

\* the limit the handler runs with: Query(10) when the parameter is left out
EffectiveLimit(limit) == IF limit = <<>> THEN DefaultLimit ELSE limit[1]

\* the body of get_timeline: filter, sort, `if limit: events[:limit]`
TimelineResult(type, limit) ==
  LET filtered == IF TypeGiven(type)
                  THEN FilterByType(TIMELINE_EVENTS, type[1])
                  ELSE TIMELINE_EVENTS
      sorted   == SortedNewestFirst(filtered)
      n        == EffectiveLimit(limit)
  IN  IF n # 0 THEN Prefix(sorted, n) ELSE sorted

\* GET /timeline/ : the handler has no suspension point
GetTimeline ==
  /\ query.pc = "called"
  /\ query' = [query EXCEPT !.pc = "done",
                            !.events = TimelineResult(query.type, query.limit)]
  /\ UNCHANGED <<POKEMON_CACHE, req, chatVars>>

(* --------------------------- specifications --------------------------- *)

\* the caches earlier requests can have built, up to MaxCached entries: any
\* set of keys the requests store (the names of the catalogue and the names
\* looked up), each holding one of the records the resolver can parse for it
Keys == CatalogueKeys \cup { Lower(n) : n \in LookupNames }
Caches ==
  UNION { [ks -> {"full", "noart"}] :
          ks \in { S \in SUBSET Keys : Cardinality(S) <= MaxCached } }
CacheOf(f) == [k \in DOMAIN f |-> ParsePokemon(UpstreamDetail(k, f[k]))]

\* page requests of the concurrent specification: pages of one entry,
\* without a search term (SpecPage has the larger pages and the searches)
ConcPage == { 1, 2 }
ConcLimit == { 1 }
ConcSearch == { <<>> }
\* and the list call of each answered with a usable body, answered with a
\* failure status, or timing out
ConcStatuses == { 200, 404 }
ConcBodies == { "ok" }
ConcErrors == { e \in ListErrors : e.kind = "timeout" }

\* Requests of both kinds, up to NumReq of them, interleaved in every way
\* the event loop allows.
Next ==
  \/ \E r \in ReqIds, page \in ConcPage, limit \in ConcLimit,
        search \in ConcSearch : GetPokemonData(r, page, limit, search)
  \/ \E r \in ReqIds, status \in ConcStatuses, body \in ConcBodies :
        ListRespond(r, status, body)
  \/ \E r \in ReqIds, status \in ConcStatuses, body \in ConcBodies :
        ListClose(r, status, body)
  \/ \E r \in ReqIds, err \in ConcErrors : ListFail(r, err)
  \/ \E r \in ReqIds, err \in ConcErrors : ListFailClose(r, err)
  \/ \E r \in ReqIds : FanOut(r)
  \/ \E r \in ReqIds, i \in TaskIds, out \in DetailOutcomes :
        DetailRespond(r, i, out)
  \/ \E r \in ReqIds, i \in TaskIds, out \in DetailOutcomes :
        DetailClose(r, i, out)
  \/ \E r \in ReqIds, i \in TaskIds : DetailReturn(r, i)
  \/ \E r \in ReqIds : Join(r)
  \/ \E r \in ReqIds : JoinClose(r)
  \/ \E r \in ReqIds : HandlerReturn(r)
  \/ \E r \in ReqIds, name \in LookupNames : GetPokemonByName(r, name)
  \/ \E r \in ReqIds, out \in DetailOutcomes : ByNameRespond(r, out)
  \/ \E r \in ReqIds, out \in DetailOutcomes : ByNameClose(r, out)
  \/ \E r \in ReqIds : ByNameReturn(r)

Spec == Init /\ [][Next]_vars

\* One page request with any page, limit and search, served from any cache
\* earlier requests can have left.
InitPage ==
  /\ POKEMON_CACHE \in { CacheOf(f) : f \in Caches }
  /\ req = [r \in ReqIds |-> IdleReq]
  /\ InitChat
  /\ query = IdleQuery

NextPage ==
  \/ \E page \in PageNumbers, limit \in 1..Min(MaxLimit, LimitCap),
        search \in SearchTerms : GetPokemonData(1, page, limit, search)
  \/ \E status \in ListStatuses, body \in ListBodies :
        ListRespond(1, status, body)
  \/ \E status \in ListStatuses, body \in ListBodies :
        ListClose(1, status, body)
  \/ \E err \in ListErrors : ListFail(1, err)
  \/ \E err \in ListErrors : ListFailClose(1, err)
  \/ FanOut(1)
  \/ \E i \in TaskIds, out \in DetailOutcomes : DetailRespond(1, i, out)
  \/ \E i \in TaskIds, out \in DetailOutcomes : DetailClose(1, i, out)
  \/ \E i \in TaskIds : DetailReturn(1, i)
  \/ Join(1)
  \/ JoinClose(1)
  \/ HandlerReturn(1)

SpecPage == InitPage /\ [][NextPage]_vars

\* The single page request under the scheduling the event loop and the
\* client timeout give: a coroutine that can run is run, and every upstream
\* call that is in flight ends (it answers, fails, or times out after
\* timeout=10.0).  Nothing obliges a client to send the request.
FairPage ==
  /\ WF_vars(\/ \E status \in ListStatuses, body \in ListBodies :
                    ListRespond(1, status, body) \/ ListClose(1, status, body)
              \/ \E err \in ListErrors :
                    ListFail(1, err) \/ ListFailClose(1, err))
  /\ WF_vars(FanOut(1))
  /\ \A i \in TaskIds :
       /\ WF_vars(\E out \in DetailOutcomes :
                    DetailRespond(1, i, out) \/ DetailClose(1, i, out))
       /\ WF_vars(DetailReturn(1, i))
  /\ WF_vars(Join(1) \/ JoinClose(1))
  /\ WF_vars(HandlerReturn(1))

\* its requests: the first pages and the page of the last entry, of every
\* size, without a search and with the search for "a"
FairPages == ConcPage \cup { Len(Catalogue) }
FairSearch == { <<>>, << <<"a">> >> }

NextPageFair ==
  \/ \E page \in FairPages, limit \in 1..Min(MaxLimit, LimitCap),
        search \in FairSearch : GetPokemonData(1, page, limit, search)
  \/ \E status \in ListStatuses, body \in ListBodies :
        ListRespond(1, status, body)
  \/ \E status \in ListStatuses, body \in ListBodies :
        ListClose(1, status, body)
  \/ \E err \in ListErrors : ListFail(1, err)
  \/ \E err \in ListErrors : ListFailClose(1, err)
  \/ FanOut(1)
  \/ \E i \in TaskIds, out \in DetailOutcomes : DetailRespond(1, i, out)
  \/ \E i \in TaskIds, out \in DetailOutcomes : DetailClose(1, i, out)
  \/ \E i \in TaskIds : DetailReturn(1, i)
  \/ Join(1)
  \/ JoinClose(1)
  \/ HandlerReturn(1)

SpecPageFair == InitPage /\ [][NextPageFair]_vars /\ FairPage

\* Concurrent single-item lookups of case variants of one name.
InitLookups ==
  /\ POKEMON_CACHE = << >>
  /\ req = [r \in LookupIds |-> IdleReq]
  /\ InitChat
  /\ query = IdleQuery

NextLookups ==
  \/ \E r \in LookupIds, name \in VariantNames : GetPokemonByName(r, name)
  \/ \E r \in LookupIds, out \in DetailOutcomes : ByNameRespond(r, out)
  \/ \E r \in LookupIds, out \in DetailOutcomes : ByNameClose(r, out)
  \/ \E r \in LookupIds : ByNameReturn(r)

SpecLookups == InitLookups /\ [][NextLookups]_vars

\* Concurrent POST /chat requests.
NextChat ==
  \/ \E p \in PostIds, sender \in ChatSenders, text \in ChatTexts :
        PostChatMessage(p, sender, text)
  \/ \E p \in PostIds, reply \in AllReplies : BotReply(p, reply)

SpecChat == Init /\ [][NextChat]_vars

\* The same under the event loop's scheduling: a handler suspended in
\* asyncio.sleep(1) is resumed.  Nothing obliges a client to post.
FairChat ==
  \A p \in PostIds : WF_vars(\E reply \in AllReplies : BotReply(p, reply))

\* one sender; a refused text, a text with a keyword, a text without
FairSenders == {"alice"}
FairTexts == {"  ", "Help", "hi"}

NextChatFair ==
  \/ \E p \in PostIds, sender \in FairSenders, text \in FairTexts :
        PostChatMessage(p, sender, text)
  \/ \E p \in PostIds, reply \in AllReplies : BotReply(p, reply)

SpecChatFair == Init /\ [][NextChatFair]_vars /\ FairChat

\* The timeline listing on every pair of parameters.
InitTimeline ==
  /\ POKEMON_CACHE = << >>
  /\ req = [r \in ReqIds |-> IdleReq]
  /\ InitChat
  /\ query \in { [pc |-> "called", type |-> t, limit |-> l, events |-> <<>>] :
                  t \in TimelineTypes, l \in TimelineLimits }

NextTimeline == GetTimeline

SpecTimeline == InitTimeline /\ [][NextTimeline]_vars

(* ------------------------------ claims ------------------------------- *)

PageReqs == { r \in ReqIds : req[r].kind = "page" }
LookupReqs == { r \in ReqIds : req[r].kind = "lookup" }

\* the resolutions in the system: <<r, i>> is task i of request r
Resolutions ==
  UNION { { <<r, i>> : i \in 1..Len(req[r].tasks) } : r \in DOMAIN req }

\* the resolution called upstream, got a record and has stored it (it may
\* still be closing its client)
Fetched(t) ==
  ~t.hit /\ (t.st = "rec" \/ (t.st = "closing" /\ t.fin = "rec"))

\* in this step the upstream call of resolution <<r, i>> ends with the given
\* result ("rec", "none" or "exc"), returned at once or after the client
\* has closed
Gets(r, i, result) ==
  /\ i <= Len(req[r].tasks)
  /\ req[r].tasks[i].st = "wait"
  /\ \/ req'[r].tasks[i].st = result
     \/ req'[r].tasks[i].st = "closing" /\ req'[r].tasks[i].fin = result

\* C1: whenever the initial upstream list call of a page request answers with
\* a status s other than 200, the request fails with status s and the message
\* 'Failed to fetch data from external API'.  The code raises exactly that
\* failure, inside the try block whose except Exception clause replaces it
\* by a 500: the statement is violated.
C1_UpstreamStatusSurfaces ==
  \A r \in PageReqs :
    (req[r].pc = "done" /\ req[r].listStatus \notin {0, 200}) =>
      /\ req[r].resp.status = req[r].listStatus
      /\ req[r].resp.detail = "Failed to fetch data from external API"

\* resolution <<r, i>> issues its upstream detail call in this step
Issues(r, i) ==
  /\ i <= Len(req'[r].tasks)
  /\ req'[r].tasks[i].st = "wait"
  /\ (i > Len(req[r].tasks) \/ req[r].tasks[i].st = "new")

\* resolution <<r, i>> takes its first step (the cache test) in this step
Begins(r, i) ==
  /\ i <= Len(req'[r].tasks)
  /\ req'[r].tasks[i].st # "new"
  /\ (i > Len(req[r].tasks) \/ req[r].tasks[i].st = "new")

\* C2: a name present in the cache is never re-fetched.  In every step, a
\* resolution that issues an upstream detail call does so for a name whose
\* lowercased form is not a key of the cache, and a resolution that begins
\* when the key is in the cache returns the cached record in that same step,
\* without an upstream call.
C2_NoRefetch ==
  [][\A r \in ReqIds, i \in TaskIds :
       /\ Issues(r, i) => Lower(req'[r].tasks[i].name) \notin DOMAIN POKEMON_CACHE
       /\ (Begins(r, i) /\ Lower(req'[r].tasks[i].name) \in DOMAIN POKEMON_CACHE) =>
            /\ req'[r].tasks[i].st = "rec"
            /\ req'[r].tasks[i].val = <<POKEMON_CACHE[Lower(req'[r].tasks[i].name)]>>
            /\ req'[r].tasks[i].hit
            /\ POKEMON_CACHE' = POKEMON_CACHE]_vars

\* a resolution answered from the cache while another request's resolution of
\* the same key, which did call upstream, is on record
C2_Witness ==
  \E x \in Resolutions, y \in Resolutions :
    LET t == req[x[1]].tasks[x[2]]
        u == req[y[1]].tasks[y[2]]
    IN  /\ x[1] # y[1]
        /\ t.hit /\ t.st = "rec"
        /\ ~u.hit /\ u.st = "rec"
        /\ Lower(t.name) = Lower(u.name)
        /\ t.name # u.name

\* request r is a single-item lookup that has been answered
LookupDone(r) == req[r].kind = "lookup" /\ req[r].pc = "done"

\* r1 and r2 resolve the same name, r2 beginning after r1 has returned
Twice(r1, r2) ==
  /\ LookupDone(r1) /\ LookupDone(r2)
  /\ r1 \in req[r2].after
  /\ req[r1].tasks[1].name = req[r2].tasks[1].name

\* upstream detail calls issued by a resolution: none on a hit, one on a miss
Calls(t) == IF t.hit THEN 0 ELSE 1

\* a resolution of the key by a request other than r1 and r2 has fetched and
\* stored a record of its own
OtherStored(r1, r2, key) ==
  \E x \in Resolutions :
    /\ x[1] \notin {r1, r2}
    /\ Lower(req[x[1]].tasks[x[2]].name) = key
    /\ Fetched(req[x[1]].tasks[x[2]])

\* C3 as stated: for any name, resolving it twice returns the identical
\* record both times and issues exactly one upstream detail call in total,
\* the second resolution being a cache hit (stated of resolutions that
\* return, a record or None).  Violated: a first resolution that ends in
\* absence stores nothing, and the second calls upstream again.
C3_Original ==
  \A r1 \in DOMAIN req, r2 \in DOMAIN req :
    LET t1 == req[r1].tasks[1]
        t2 == req[r2].tasks[1]
    IN  (Twice(r1, r2) /\ t1.st # "exc" /\ t2.st # "exc") =>
          /\ t1.val = t2.val
          /\ Calls(t1) + Calls(t2) = 1
          /\ t2.hit

\* C3 amended: when the first resolution of a name fetches a record from
\* upstream (one call), a second resolution begun after the first returned
\* is a cache hit, one upstream call in total, and returns the identical
\* record unless another resolution of that name has stored a record of its
\* own; when the first resolution ends in absence, the second issues an
\* upstream call of its own, two in total, unless another resolution of
\* that name has stored a record.
C3_IdempotentAfterSuccess ==
  \A r1 \in DOMAIN req, r2 \in DOMAIN req :
    LET t1 == req[r1].tasks[1]
        t2 == req[r2].tasks[1]
        alone == ~OtherStored(r1, r2, Lower(t1.name))
    IN  Twice(r1, r2) =>
          /\ (t1.st = "rec" /\ ~t1.hit) =>
                /\ t2.st = "rec" /\ t2.hit
                /\ Calls(t1) + Calls(t2) = 1
                /\ alone => t2.val = t1.val
          /\ (t1.st = "none" /\ alone) =>
                /\ ~t2.hit
                /\ Calls(t1) + Calls(t2) = 2

\* two lookups of one name in sequence, the first fetched from upstream, the
\* second answered with the same record from the cache, while a third
\* lookup of the name is in flight
C3_Witness ==
  \E r1 \in DOMAIN req, r2 \in DOMAIN req :
    /\ Twice(r1, r2)
    /\ req[r1].tasks[1].st = "rec" /\ ~req[r1].tasks[1].hit
    /\ req[r2].tasks[1].st = "rec" /\ req[r2].tasks[1].hit
    /\ req[r2].resp.status = 200
    /\ req[r2].resp.pokemon = req[r1].resp.pokemon
    /\ \E x \in DOMAIN req \ {r1, r2} :
         /\ req[x].pc = "detail"
         /\ Lower(req[x].tasks[1].name) = Lower(req[r1].tasks[1].name)

\* the page request r has been answered with a page
PageOk(r) == r \in PageReqs /\ req[r].pc = "done" /\ req[r].resp.status = 200

\* term occurs in name, letter case ignored: stated position by position
Matches(term, name) ==
  \E s \in 0..(Len(name) - Len(term)) :
    \A k \in 1..Len(term) : LowerChar(term[k]) = LowerChar(name[s + k])

\* the positions of the upstream entries a search keeps: those of the slice
\* offset 0, limit 1000 whose name matches the term
SearchHits ==
  [term \in Terms |->
     { i \in 1..Min(1000, Len(Catalogue)) : Matches(term, Catalogue[i]) }]

\* the positions past that slice whose name matches the term
PastScan(term) ==
  { i \in 1001..Len(Catalogue) : Matches(term, Catalogue[i]) }

\* the catalogue positions a request's page is made of, before paging: all
\* of them without a search, those whose name matches with one
Kept(q) ==
  IF Truthy(q.search) THEN SearchHits[q.search[1]] ELSE 1..Len(Catalogue)

\* the n-th smallest element of a set of numbers
Nth(S, n) == CHOOSE i \in S : Cardinality({ j \in S : j <= i }) = n

\* how many entries the page of request q holds
PageLen(q) ==
  LET rest == Cardinality(Kept(q)) - (q.page - 1) * q.limit
  IN  IF rest <= 0 THEN 0 ELSE IF rest < q.limit THEN rest ELSE q.limit

\* the upstream entry at position j of the page of request q
PageEntry(q, j) ==
  IF Truthy(q.search)
  THEN Catalogue[Nth(Kept(q), (q.page - 1) * q.limit + j)]
  ELSE Catalogue[(q.page - 1) * q.limit + j]

\* the tasks of q that returned a record
Resolved(q) == { i \in 1..Len(q.tasks) : q.tasks[i].st = "rec" }

\* C4: for every page request, search or not, the returned records are the
\* upstream list entries of that page in upstream order with the entries
\* that resolved to absence removed, whatever the order in which the
\* concurrent detail fetches completed.  The record of an entry is the one
\* its resolution returned, and carries the name upstream serves for it.
C4_UpstreamOrder ==
  \A r \in ReqIds :
    PageOk(r) =>
      LET q == req[r]
      IN  /\ Len(q.tasks) = PageLen(q)
          /\ \A i \in 1..Len(q.tasks) : q.tasks[i].name = PageEntry(q, i)
          /\ Len(q.resp.pokemon) = Cardinality(Resolved(q))
          /\ \A j \in 1..Len(q.resp.pokemon) :
               /\ q.resp.pokemon[j] = q.tasks[Nth(Resolved(q), j)].val[1]
               /\ q.resp.pokemon[j].name =
                    UpstreamDetail(Lower(PageEntry(q, Nth(Resolved(q), j))),
                                   "full").name

\* a page of two records of different names whose second entry was answered
\* by upstream before its first
C4_Witness ==
  \E r \in ReqIds :
    /\ PageOk(r)
    /\ Len(req[r].tasks) = 2
    /\ req[r].tasks[1].ord = 2 /\ req[r].tasks[2].ord = 1
    /\ Len(req[r].resp.pokemon) = 2
    /\ req[r].resp.pokemon[1].name # req[r].resp.pokemon[2].name

\* C5: detail resolutions that fail (upstream non-200 status, timeout or
\* transport failure) never abort the page request: no sibling is cancelled
\* (every task has returned), the request succeeds with exactly the records
\* of the entries that resolved, and page, total and has_more are what they
\* are when every resolution succeeds.
C5_PartialFailure ==
  \A r \in PageReqs :
    LET q == req[r]
    IN  (q.pc = "done" /\ q.tasks # <<>> /\ ~Raised(q)) =>
          /\ q.resp.status = 200
          /\ \A i \in 1..Len(q.tasks) : q.tasks[i].st \in {"rec", "none"}
          /\ Len(q.resp.pokemon) = Cardinality(Resolved(q))
          /\ \A i \in Resolved(q) :
               \E j \in 1..Len(q.resp.pokemon) :
                 q.resp.pokemon[j] = q.tasks[i].val[1]
          /\ q.resp.page = q.page
          /\ q.resp.total = Cardinality(Kept(q))
          /\ q.resp.has_more =
               ((q.page - 1) * q.limit + q.limit < Cardinality(Kept(q)))

\* a page whose first upstream answer was a timeout or transport error and
\* whose sibling was fetched after it and is the one record returned
C5_Witness ==
  \E r \in ReqIds :
    /\ PageOk(r)
    /\ Len(req[r].tasks) = 2
    /\ \E i \in 1..2, j \in 1..2 :
         /\ req[r].tasks[i].st = "none" /\ req[r].tasks[i].why = "error"
         /\ req[r].tasks[i].ord = 1
         /\ req[r].tasks[j].st = "rec" /\ req[r].tasks[j].ord = 2
    /\ Len(req[r].resp.pokemon) = 1
    /\ req[r].resp.has_more

\* C6: for every page >= 1 and limit in 1..50, with offset = (page-1)*limit,
\* has_more equals ((offset + limit) < total) exactly, total being the
\* upstream count without a search and the number of matching entries with
\* one, and the returned page is the requested page.
C6_Pagination ==
  \A r \in ReqIds :
    PageOk(r) =>
      LET q      == req[r]
          offset == (q.page - 1) * q.limit
          total  == IF Truthy(q.search)
                    THEN Cardinality(SearchHits[q.search[1]])
                    ELSE Len(Catalogue)
      IN  /\ q.page >= 1 /\ q.limit \in 1..LimitCap
          /\ q.resp.page = q.page
          /\ q.resp.total = total
          /\ q.resp.has_more = (offset + q.limit < total)

\* a page without search that ends exactly at the upstream count:
\* offset + limit = total, has_more is false
C6_Witness ==
  \E r \in ReqIds :
    /\ PageOk(r)
    /\ ~Truthy(req[r].search)
    /\ (req[r].page - 1) * req[r].limit + req[r].limit = req[r].resp.total
    /\ req[r].page > 1
    /\ ~req[r].resp.has_more

\* the request has read a usable list body and gone on to its detail fetches
PastList(q) ==
  /\ q.kind = "page"
  /\ q.pc \in {"fanout", "gather", "closing", "done"}
  /\ q.listStatus = 200
  /\ q.listBody \in {"ok", "nocount"}

\* C7: with a non-empty search term the entries kept are exactly the entries
\* of the upstream slice (offset 0, limit 1000) whose name contains the term
\* as a case-insensitive substring; total is the number of kept entries
\* before paging, not the upstream count; detail resolutions exist only for
\* the kept entries at positions [offset, offset+limit) of the filtered list.
C7_SearchPath ==
  \A r \in ReqIds :
    LET q      == req[r]
        kept   == SearchHits[q.search[1]]
        offset == (q.page - 1) * q.limit
        paged  == { n \in 1..Cardinality(kept) : offset < n /\ n <= offset + q.limit }
    IN  (PastList(q) /\ Truthy(q.search)) =>
          /\ q.total = Cardinality(kept)
          /\ q.total # Len(Catalogue)
          /\ Len(q.tasks) = Cardinality(paged)
          /\ \A j \in 1..Len(q.tasks) :
               q.tasks[j].name = Catalogue[Nth(kept, offset + j)]
          /\ (q.pc = "done" /\ q.resp.status = 200) =>
               q.resp.total = Cardinality(kept)

\* search "a", page 2 of size 1: of the first 1000 entries "Ab" and "ab" are
\* kept ("Ab" by ignoring case) and "b" is not; "ac", which matches, lies
\* past them and is not kept; the one resolution started is that of "ab"
C7_Witness ==
  \E r \in ReqIds :
    /\ PastList(req[r]) /\ req[r].pc = "gather"
    /\ req[r].search = << <<"a">> >>
    /\ req[r].page = 2 /\ req[r].limit = 1
    /\ req[r].total = 2
    /\ Len(req[r].tasks) = 1
    /\ req[r].tasks[1].name = <<"a", "b">>
    /\ PastScan(<<"a">>) # {}

\* lookup r is answered in this step
LookupEnds(r) ==
  /\ req[r].pc # "done"
  /\ req'[r].kind = "lookup" /\ req'[r].pc = "done"

\* C8: the single-item lookup returns the resolver's record when the resolver
\* yields one and fails with 404 exactly when the resolver signals absence
\* (upstream non-200 status, timeout or transport failure); in that case the
\* failure is the not-found one and the cache is unchanged.
C8_LookupNotFound ==
  [][/\ \A r \in ReqIds :
       LookupEnds(r) =>
         LET t == req'[r].tasks[1]
             a == req'[r].resp
         IN  /\ t.st = "rec" => (a.status = 200 /\ a.pokemon = t.val)
             /\ (a.status = 404) <=> (t.st = "none")
             /\ (t.st = "none") <=> (t.why \in {"status", "error"})
             /\ t.st = "none" =>
                  /\ a.detail = "Pokemon not found"
                  /\ a.pokemon = <<>>
                  /\ POKEMON_CACHE' = POKEMON_CACHE
     /\ \A r \in ReqIds :
          (req[r].kind = "lookup" /\ Gets(r, 1, "none")) =>
            POKEMON_CACHE' = POKEMON_CACHE]_vars

\* a lookup answered 404 after a timeout or transport error upstream, the
\* key still absent from the cache
C8_Witness ==
  \E r \in ReqIds :
    /\ LookupDone(r)
    /\ req[r].resp.status = 404
    /\ req[r].tasks[1].why = "error"
    /\ Lower(req[r].tasks[1].name) \notin DOMAIN POKEMON_CACHE

\* resolution <<r, i>> stores the record it fetched in this step
StoresNow(r, i, k) ==
  /\ Gets(r, i, "rec")
  /\ Lower(req[r].tasks[i].name) = k
  /\ req'[r].tasks[i].val = <<POKEMON_CACHE'[k]>>

\* C9 as stated: cache entries are write-once; once a key is stored it is
\* present in every later state and maps to an equal value.  Violated: of two
\* resolutions of one name that both missed the cache, the second to finish
\* overwrites the entry with what upstream answered to it, which need not be
\* what it answered to the first.
C9_Original ==
  [][\A k \in DOMAIN POKEMON_CACHE :
       k \in DOMAIN POKEMON_CACHE' /\ POKEMON_CACHE'[k] = POKEMON_CACHE[k]]_vars

\* C9 amended: a key once stored is present in every later state; its value
\* changes only when a resolution of the same name that had missed the cache
\* finishes and stores the record it fetched itself (last write wins).
C9_KeysPersist ==
  [][\A k \in DOMAIN POKEMON_CACHE :
       /\ k \in DOMAIN POKEMON_CACHE'
       /\ POKEMON_CACHE'[k] # POKEMON_CACHE[k] =>
            \E r \in ReqIds, i \in TaskIds : StoresNow(r, i, k)]_vars

\* two resolutions of one key that both missed the cache and both stored a
\* record; the cache holds the one of them
C9_Witness ==
  \E x \in Resolutions, y \in Resolutions :
    LET t == req[x[1]].tasks[x[2]]
        u == req[y[1]].tasks[y[2]]
    IN  /\ x # y
        /\ Lower(t.name) = Lower(u.name)
        /\ t.st = "rec" /\ ~t.hit
        /\ u.st = "rec" /\ ~u.hit
        /\ t.val # u.val
        /\ POKEMON_CACHE[Lower(t.name)] = u.val[1]

\* C10: an unexpected exception anywhere in a page request (a list call that
\* ends without an answer, a malformed upstream list body, an exception
\* raised inside a detail resolution)
\* surfaces as a failure with status 500, never as a page.
C10_InternalFailure ==
  \A r \in PageReqs :
    LET q == req[r]
        malformed == /\ q.listStatus = 200
                     /\ \/ q.listBody = "bad"
                        \/ q.listBody = "nocount" /\ ~Truthy(q.search)
        unanswered == q.listStatus = 0
    IN  (q.pc = "done" /\ (unanswered \/ malformed \/ Raised(q))) =>
          /\ q.resp.status = 500
          /\ q.resp.pokemon = <<>>

\* a page request answered 500 because one detail resolution raised, while a
\* sibling resolution is still waiting for upstream
C10_Witness ==
  \E r \in PageReqs :
    /\ req[r].pc = "done" /\ req[r].resp.status = 500
    /\ \E i \in 1..Len(req[r].tasks), j \in 1..Len(req[r].tasks) :
         req[r].tasks[i].st = "exc" /\ req[r].tasks[j].st = "wait"


(* C11: timeline listing *)

\* the events a listing with this type parameter is about: those of the
\* requested type, or all of them when no type is given
Matching(type) ==
  { TIMELINE_EVENTS[i] : i \in { j \in 1..Len(TIMELINE_EVENTS) :
      TypeGiven(type) => TIMELINE_EVENTS[j].type = type[1] } }

\* C11: whenever a limit n is supplied, the listing holds min(n, number of
\* matching events) events, all of them matching, newest first, none of them
\* older than a matching event left out, and never more than n events.
C11_LimitedNewestFirst ==
  (query.pc = "done" /\ query.limit # <<>>) =>
    LET n   == query.limit[1]
        M   == Matching(query.type)
        res == query.events
    IN  /\ Len(res) <= n
        /\ Len(res) = Min(n, Cardinality(M))
        /\ \A i \in 1..Len(res) : res[i] \in M
        /\ \A i, j \in 1..Len(res) :
              i < j => res[i].timestamp > res[j].timestamp
        /\ \A e \in M : \A i \in 1..Len(res) :
              (\A j \in 1..Len(res) : res[j] # e) =>
                res[i].timestamp > e.timestamp

\* the same statement for the limits n >= 1 only
C11_PositiveLimits ==
  (query.pc = "done" /\ query.limit # <<>> /\ query.limit[1] < 1)
    \/ C11_LimitedNewestFirst

(* C12, C13: what the cache holds and when it answers *)

\* lookup r2 began after lookup r1 had been answered
Later(r1, r2) ==
  /\ req[r1].kind = "lookup" /\ req[r2].kind = "lookup"
  /\ r1 \in req[r2].after

\* a lookup other than r1 and r2, not yet answered when r1 began, has
\* fetched the key from upstream and stored its record
StoredBetween(r1, r2, key) ==
  \E x \in DOMAIN req \ {r1, r2} :
    /\ req[x].kind = "lookup"
    /\ Lower(req[x].tasks[1].name) = key
    /\ Fetched(req[x].tasks[1])
    /\ x \notin req[r1].after

\* One step, for every resolution: one that ends in absence leaves the cache
\* as it is, when its upstream call ends and while it closes its client; one
\* that has returned or raised never runs again (no retry, no second
\* upstream call); and the cache changes only when a resolution that called
\* upstream gets its record, which is then stored under its key.
AbsenceStep ==
  /\ \A r \in DOMAIN req : \A i \in 1..Len(req[r].tasks) :
       /\ Gets(r, i, "none") => POKEMON_CACHE' = POKEMON_CACHE
       /\ ( /\ req[r].tasks[i].st = "closing" /\ req[r].tasks[i].fin = "none"
            /\ req'[r].tasks[i] # req[r].tasks[i] ) =>
            /\ POKEMON_CACHE' = POKEMON_CACHE
            /\ req'[r].tasks[i].st = "none"
       /\ req[r].tasks[i].st \in {"rec", "none", "exc"} =>
            req'[r].tasks[i] = req[r].tasks[i]
  /\ POKEMON_CACHE' # POKEMON_CACHE =>
       \E r \in DOMAIN req : \E i \in 1..Len(req[r].tasks) :
         /\ Gets(r, i, "rec")
         /\ ~req'[r].tasks[i].hit
         /\ Lower(req[r].tasks[i].name) \in DOMAIN POKEMON_CACHE'
         /\ POKEMON_CACHE'[Lower(req[r].tasks[i].name)] = req'[r].tasks[i].val[1]
         /\ \A k \in DOMAIN POKEMON_CACHE :
              k # Lower(req[r].tasks[i].name) =>
                k \in DOMAIN POKEMON_CACHE' /\ POKEMON_CACHE'[k] = POKEMON_CACHE[k]

\* C12 as stated: the cache is populated only by successful fetches, a
\* resolution that ends in absence leaves it unchanged and makes no retry,
\* and a later resolution of the same name issues a fresh upstream call.
\* Violated: a concurrent lookup of the name may have stored its record in
\* between, and the later resolution is then a cache hit.
C12_Original ==
  /\ [][AbsenceStep]_vars
  /\ [](\A r1 \in DOMAIN req, r2 \in DOMAIN req :
          ( /\ Later(r1, r2)
            /\ req[r1].tasks[1].name = req[r2].tasks[1].name
            /\ req[r1].tasks[1].st = "none" ) =>
            ~req[r2].tasks[1].hit)

\* C12 amended: the cache is populated only by successful fetches, a
\* resolution that ends in absence leaves it unchanged and makes no retry,
\* and a later resolution of the same name issues a fresh upstream call
\* unless another resolution of that name, not yet answered when the first
\* began, has fetched and stored a record.
C12_AbsenceNotCached ==
  /\ [][AbsenceStep]_vars
  /\ [](\A r1 \in DOMAIN req, r2 \in DOMAIN req :
          ( /\ Later(r1, r2)
            /\ req[r1].tasks[1].name = req[r2].tasks[1].name
            /\ req[r1].tasks[1].st = "none"
            /\ ~StoredBetween(r1, r2, Lower(req[r1].tasks[1].name)) ) =>
            /\ ~req[r2].tasks[1].hit
            /\ Calls(req[r2].tasks[1]) = 1)

\* a lookup answered 404 after its one upstream call, nothing cached for its
\* key, and a later lookup of the same name with an upstream call of its own
C12_Witness ==
  \E r1 \in DOMAIN req, r2 \in DOMAIN req :
    /\ Later(r1, r2)
    /\ req[r1].tasks[1].name = req[r2].tasks[1].name
    /\ req[r1].tasks[1].st = "none" /\ req[r1].resp.status = 404
    /\ Lower(req[r1].tasks[1].name) \notin DOMAIN POKEMON_CACHE
    /\ req[r2].tasks[1].st = "wait" /\ ~req[r2].tasks[1].hit

\* every key of the cache is lowercase and is the lowercased name of a
\* resolution that fetched a record
LowercaseKeys ==
  \A k \in DOMAIN POKEMON_CACHE :
    /\ k = Lower(k)
    /\ \E r \in DOMAIN req : \E i \in 1..Len(req[r].tasks) :
         /\ Lower(req[r].tasks[i].name) = k
         /\ Fetched(req[r].tasks[i])

\* C13 as stated: every key of the cache is a lowercased name, and after a
\* name has been resolved with a record, a later resolution of any case
\* variant of it is a cache hit that returns the same record without an
\* upstream call.  Violated: a concurrent lookup that had missed the cache
\* as well may overwrite the entry with a different record in between.
C13_Original ==
  /\ LowercaseKeys
  /\ \A r1 \in DOMAIN req, r2 \in DOMAIN req :
       ( /\ Later(r1, r2)
         /\ Lower(req[r1].tasks[1].name) = Lower(req[r2].tasks[1].name)
         /\ req[r1].tasks[1].st = "rec" ) =>
         /\ req[r2].tasks[1].st = "rec" /\ req[r2].tasks[1].hit
         /\ Calls(req[r2].tasks[1]) = 0
         /\ req[r2].tasks[1].val = req[r1].tasks[1].val

\* C13 amended: every key of the cache is a lowercased name, and after a
\* name has been resolved with a record, a later resolution of any case
\* variant of it is a cache hit without an upstream call; it returns a record
\* of that key, the same record as the earlier resolution unless another
\* resolution of the name, not yet answered when the earlier one began, has
\* fetched and stored a record of its own.
C13_CaseInsensitiveHit ==
  /\ LowercaseKeys
  /\ \A r1 \in DOMAIN req, r2 \in DOMAIN req :
       ( /\ Later(r1, r2)
         /\ Lower(req[r1].tasks[1].name) = Lower(req[r2].tasks[1].name)
         /\ req[r1].tasks[1].st = "rec" ) =>
         /\ req[r2].tasks[1].st = "rec" /\ req[r2].tasks[1].hit
         /\ Calls(req[r2].tasks[1]) = 0
         /\ req[r2].tasks[1].val[1].name = Lower(req[r2].tasks[1].name)
         /\ ~StoredBetween(r1, r2, Lower(req[r1].tasks[1].name)) =>
              req[r2].tasks[1].val = req[r1].tasks[1].val

\* a name fetched and stored by one lookup, then looked up in another
\* spelling: answered from the cache with the same record
C13_Witness ==
  \E r1 \in DOMAIN req, r2 \in DOMAIN req :
    /\ Later(r1, r2)
    /\ req[r1].tasks[1].name # req[r2].tasks[1].name
    /\ Lower(req[r1].tasks[1].name) = Lower(req[r2].tasks[1].name)
    /\ req[r1].tasks[1].st = "rec" /\ ~req[r1].tasks[1].hit
    /\ req[r2].tasks[1].hit /\ req[r2].resp.status = 200
    /\ req[r2].resp.pokemon = req[r1].resp.pokemon

(* C14: fan-out and join *)

\* a resolution of request q is outstanding: created or in flight
Outstanding(q) ==
  \E i \in 1..Len(q.tasks) : q.tasks[i].st \in {"new", "wait", "closing"}

\* C14 as stated: a page request is answered only after every detail
\* resolution it started has completed, none of them is outstanding when the
\* response is returned, and a request that has been sent is eventually
\* answered.  Violated: when one resolution raises, the request is answered
\* (status 500) while its other resolutions are still in flight.
C14_Original ==
  /\ [](\A r \in PageReqs : req[r].pc = "done" => ~Outstanding(req[r]))
  /\ \A r \in ReqIds : (req[r].kind = "page") ~> (req[r].pc = "done")

\* C14 amended: a page request is answered with a page only after every
\* detail resolution it started has completed with a record or an absence,
\* none of them outstanding, when gather resumed the handler and after;
\* when a resolution has raised, gather resumes the handler without waiting
\* for the others, the failure it will answer is the 500, and the request
\* is answered with it once the handler's client has closed, its other
\* resolutions possibly still outstanding; a request is answered while
\* resolutions are outstanding in that case only; and a request that has
\* been sent is eventually answered.
C14_FanOutJoin ==
  /\ [](\A r \in PageReqs :
          LET q == req[r]
          IN  /\ (PageOk(r) \/ (q.pc = "closing" /\ q.pending.status = 200)) =>
                   \A i \in 1..Len(q.tasks) : q.tasks[i].st \in {"rec", "none"}
              /\ (q.pc = "gather" /\ Raised(q)) =>
                   ENABLED (Join(r) \/ JoinClose(r))
              /\ (q.pc = "gather" /\ Outstanding(q) /\ ~Raised(q)) =>
                   ~ENABLED (Join(r) \/ JoinClose(r))
              /\ (q.pc = "closing" /\ Raised(q)) => q.pending.status = 500
              /\ (q.pc \in {"closing", "done"} /\ Outstanding(q)) =>
                   /\ Raised(q)
                   /\ q.pc = "done" => q.resp.status = 500)
  /\ \A r \in ReqIds : (req[r].kind = "page") ~> (req[r].pc = "done")

\* a page of two entries about to be answered 200 after both upstream
\* calls, the call of the second entry answered before the call of the
\* first, the handler waiting for its client to close
C14_Witness ==
  \E r \in PageReqs :
    /\ req[r].pc = "closing" /\ req[r].pending.status = 200
    /\ Len(req[r].tasks) = 2
    /\ ~req[r].tasks[1].hit /\ ~req[r].tasks[2].hit
    /\ req[r].tasks[2].ord < req[r].tasks[1].ord
    /\ ~Outstanding(req[r])

(* C15, C16, C17: the chat log *)

\* C15: in every reachable state the messages of CHAT_MESSAGES have pairwise
\* distinct ids, the ids increase strictly in list order, and
\* message_id_counter is greater than every stored id.
C15_UniqueOrderedIds ==
  /\ \A i \in 1..Len(CHAT_MESSAGES), j \in 1..Len(CHAT_MESSAGES) :
       i # j => CHAT_MESSAGES[i].id # CHAT_MESSAGES[j].id
  /\ \A i \in 1..Len(CHAT_MESSAGES), j \in 1..Len(CHAT_MESSAGES) :
       i < j => CHAT_MESSAGES[i].id < CHAT_MESSAGES[j].id
  /\ \A i \in 1..Len(CHAT_MESSAGES) :
       message_id_counter > CHAT_MESSAGES[i].id

\* two POSTs that slept at the same time, both answered: four messages in
\* the log, the two user messages first
C15_Witness ==
  /\ post[1].pc = "done" /\ post[2].pc = "done"
  /\ Len(CHAT_MESSAGES) = 4
  /\ post[1].resp.reply = <<CHAT_MESSAGES[1]>>
  /\ post[2].resp.reply = <<CHAT_MESSAGES[2]>>

\* the positions of the log that hold message m
Positions(m) == { i \in 1..Len(CHAT_MESSAGES) : CHAT_MESSAGES[i] = m }

\* POST p has been accepted: its message passed the validation
Accepted(p) == post[p].pc = "sleep" \/ (post[p].pc = "done" /\ post[p].resp.status = 200)

\* One step of POST p: its first run, when the message is accepted, appends
\* the user's message and nothing else; its second run appends one message
\* of sender "Bot" with a larger id and answers with the pair; a request
\* that has been answered does nothing more.
PostStep(p) ==
  /\ (post[p].pc = "idle" /\ post'[p].pc = "sleep") =>
       /\ CHAT_MESSAGES' = Append(CHAT_MESSAGES, post'[p].user_message[1])
       /\ post'[p].user_message[1].sender = post'[p].sender
       /\ post'[p].user_message[1].message = post'[p].message
  /\ (post[p].pc = "sleep" /\ post'[p].pc # "sleep") =>
       /\ post'[p].pc = "done" /\ post'[p].resp.status = 200
       /\ post'[p].resp.reply = post[p].user_message
       /\ CHAT_MESSAGES' = Append(CHAT_MESSAGES, post'[p].resp.bot_response[1])
       /\ post'[p].resp.bot_response[1].sender = "Bot"
       /\ post'[p].resp.bot_response[1].id > post'[p].resp.reply[1].id
  /\ post[p].pc = "done" => post'[p] = post[p]
  /\ post'[p] = post[p] =>
       \/ CHAT_MESSAGES' = CHAT_MESSAGES
       \/ \E q \in PostIds \ {p} : post'[q] # post[q]

\* the log holds the user's message of every accepted POST once, the bot's
\* message of every answered one once and after the user's, and no other
\* message
PairedLog ==
  /\ \A p \in PostIds : post[p].pc = "sleep" =>
       Cardinality(Positions(post[p].user_message[1])) = 1
  /\ \A p \in PostIds : (post[p].pc = "done" /\ post[p].resp.status = 200) =>
       /\ Cardinality(Positions(post[p].resp.reply[1])) = 1
       /\ Cardinality(Positions(post[p].resp.bot_response[1])) = 1
       /\ \A i \in Positions(post[p].resp.reply[1]) :
            \A j \in Positions(post[p].resp.bot_response[1]) : i < j
  /\ Len(CHAT_MESSAGES) =
       Cardinality({ p \in PostIds : Accepted(p) }) +
       Cardinality({ p \in PostIds : post[p].pc = "done" /\ post[p].resp.status = 200 })

\* C16: every accepted POST appends exactly two messages, the user's message
\* before the handler first suspends and later one message with sender "Bot"
\* and a larger id, and its response pairs that user message with that bot
\* message, whatever other POSTs do during the delay; no accepted POST is
\* left suspended for ever.
C16_TwoMessagesPerPost ==
  /\ [][\A p \in PostIds : PostStep(p)]_vars
  /\ []PairedLog
  /\ <>[](\A p \in PostIds : post[p].pc # "sleep")

\* a POST answered with its pair although another POST's user message lies
\* between the two in the log
C16_Witness ==
  \E p \in PostIds, q \in PostIds :
    /\ p # q
    /\ post[p].pc = "done" /\ post[p].resp.status = 200
    /\ Accepted(q)
    /\ \E i \in Positions(post[p].resp.reply[1]) :
       \E j \in Positions(post[p].resp.bot_response[1]) :
       \E k \in Positions(post[q].user_message[1]) : i < k /\ k < j

\* the text is empty or holds whitespace only
OnlyWhitespace(text) ==
  \A i \in 1..Len(Chars(text)) : Chars(text)[i] \in Whitespace

\* C17: a POST whose message is empty or only whitespace fails with status
\* 400 in its first run, which leaves CHAT_MESSAGES and message_id_counter as
\* they are and creates no user message; the request does nothing more, so
\* no bot message is created for it either.
C17_BlankRejected ==
  [][\A p \in PostIds :
       /\ (post[p].pc = "idle" /\ post'[p].pc # "idle" /\
           OnlyWhitespace(post'[p].message)) =>
            /\ post'[p].pc = "done"
            /\ post'[p].resp.status = 400
            /\ post'[p].resp.detail = "Message cannot be empty"
            /\ post'[p].user_message = <<>>
            /\ post'[p].resp.reply = <<>> /\ post'[p].resp.bot_response = <<>>
            /\ CHAT_MESSAGES' = CHAT_MESSAGES
            /\ message_id_counter' = message_id_counter
       /\ (post[p].pc = "done" /\ post[p].resp.status = 400) =>
            post'[p] = post[p]]_vars

\* a whitespace-only POST refused after another POST has been accepted: the
\* log holds the other POST's message only
C17_Witness ==
  \E p \in PostIds, q \in PostIds :
    /\ post[p].pc = "done" /\ post[p].resp.status = 400
    /\ post[p].message # "" /\ OnlyWhitespace(post[p].message)
    /\ post[q].pc = "sleep" /\ q < p
    /\ CHAT_MESSAGES = post[q].user_message
    /\ message_id_counter = 2

=============================================================================
